---- MODULE Spec2Model ----
(***************************************************************************)
(* Session handlers of lldap's HTTP authentication service                 *)
(* (src/infra/auth_service.rs): post_authorize, get_refresh, post_logout,  *)
(* the CookieToHeaderTranslator middleware and the token_validator guard,  *)
(* running against the backend contract (bind, get_user_groups,            *)
(* create_refresh_token, check_token, delete_refresh_token,                *)
(* blacklist_jwts), and the schema initialisation init_table of            *)
(* src/domain/sql_tables.rs.                                               *)
(*                                                                         *)
(* Spec is the service on one worker with every input; SpecConc is logins, *)
(* logouts and guarded requests of one user on two workers with the        *)
(* registry's lock taken step by step; SpecCookie is get_refresh and       *)
(* post_logout on refresh cookies of arbitrary user names; SpecDb is       *)
(* init_table on a database that clients insert rows into.                 *)
(*                                                                         *)
(* Strings are sequences of one-character strings.  A signed JWT is the    *)
(* record of its claims and signature; the string of a JWT is the          *)
(* one-element sequence holding that record.  Every handler is a task      *)
(* that runs from one await to the next in one step.                       *)
(***************************************************************************)
EXTENDS Integers, Sequences, FiniteSets, TLC

\* ------------------------------------------------------------------ bounds
\* The clock runs from 0 to MaxTime.
MaxTime == 2
\* At most MaxJwts access tokens are minted in one run.
MaxJwts == 2
\* init_table is called at most MaxInits times.
MaxInits == 2
\* User names of up to MaxNameLen characters are written into refresh cookies.
MaxNameLen == 3
\* Raw refresh tokens of up to MaxRawLen characters are written into them.
MaxRawLen == 2

\* ------------------------------------------------------- program constants
\* chrono::Duration::days(1), in clock ticks.
Day == 1
\* The validity window the backend gives a refresh token, in clock ticks.
RefreshAge == 2

JwtKey == "jwt_key"
OtherKey == "other_key"

Users == {<<"a">>, <<"b">>}
Groups == {"lldap_admin", "staff"}
Password == [u \in Users |-> <<"p">> \o u]
\* The raw refresh tokens the backend's random generator produces, in the
\* order in which it produces them.
RawStream == <<<<"x">>, <<"y">>>>
RawTokens == {RawStream[i] : i \in 1..Len(RawStream)}
\* A raw value the backend never generates.
Garbage == <<"z">>

Workers == {"w1"}

VARIABLES
    now,            \* Utc::now()
    memberships,    \* backend: user -> groups the user is a member of
    refresh_tokens, \* backend: the stored refresh tokens (hash, user, expiry)
    issued_raw,     \* raw refresh tokens the backend has handed out
    jwt_blacklist,  \* AppState::jwt_blacklist
    minted,         \* the access tokens create_jwt has returned, each with
                    \* the time, the subject and the groups of the call
    logged_out,     \* the handed-out refresh tokens post_logout has answered with 200
    tasks,          \* worker -> the request it is serving
    pool,           \* the SQLite database behind the connection pool
    setup           \* the call of init_table in progress, and how many returned Ok

authvars == <<now, memberships, refresh_tokens, issued_raw, jwt_blacklist, minted, logged_out, tasks>>
dbvars == <<pool, setup>>
vars == <<authvars, dbvars>>

\* ------------------------------------------------------------ pure helpers
NoJwt == {}

\* DefaultHasher over a string: an injective digest that is never the string.
DefaultHash(s) == <<"#">> \o s

\* jwt::Token::sign_with_key / verify_with_key: an HMAC over the claims.
Claims(t) == [user |-> t.user, groups |-> t.groups, exp |-> t.exp, iat |-> t.iat]
Hmac(key, claims) == [key |-> key, over |-> claims]
\* The string of a signed token, and the test that a character is one.
JwtStr(t) == <<t>>
IsJwt(c) == DOMAIN c = {"user", "groups", "exp", "iat", "sig"}
\* A byte that no HTTP header value can hold.
Ctl == [ctl |-> TRUE]

\* verify_with_key parses the string s as one JWT and checks its signature.
VerifyWithKey(s, key) ==
    /\ Len(s) = 1
    /\ IsJwt(s[1])
    /\ s[1].sig = Hmac(key, Claims(s[1]))

\* create_jwt with the day left out of exp.
create_jwt_ExpNow(key, user, groups, t1, t2) ==
    LET claims == [user |-> user, groups |-> groups, exp |-> t1, iat |-> t2]
    IN  [user |-> user, groups |-> groups, exp |-> t1, iat |-> t2,
         sig |-> Hmac(key, claims)]

\* create_jwt: exp is computed from the clock read t1 and iat is the clock read t2.
create_jwt(key, user, groups, t1, t2) ==
    LET claims == [user |-> user, groups |-> groups, exp |-> t1 + Day, iat |-> t2]
    IN  [user |-> user, groups |-> groups, exp |-> t1 + Day, iat |-> t2,
         sig |-> Hmac(key, claims)]


Ok == [status |-> 200, body |-> ""]
Unauthorized(msg) == [status |-> 401, body |-> msg]
BadRequest(msg) == [status |-> 400, body |-> msg]

\* token_validator that looks up the registry before it looks at exp.
token_validator_RevocationFirst(cred, t, bl) ==
    IF ~VerifyWithKey(cred, JwtKey) THEN Unauthorized("Invalid JWT")
    ELSE IF DefaultHash(cred) \in bl THEN Unauthorized("JWT was logged out")
    ELSE IF cred[1].exp < t THEN Unauthorized("Expired JWT")
    ELSE IF "lldap_admin" \in cred[1].groups THEN Ok
    ELSE Unauthorized("JWT error: User is not in group lldap_admin")

\* token_validator without the lookup in the registry.
token_validator_NoRevocation(cred, t, bl) ==
    IF ~VerifyWithKey(cred, JwtKey) THEN Unauthorized("Invalid JWT")
    ELSE IF cred[1].exp < t THEN Unauthorized("Expired JWT")
    ELSE IF "lldap_admin" \in cred[1].groups THEN Ok
    ELSE Unauthorized("JWT error: User is not in group lldap_admin")

\* token_validator that passes every token with some group.
token_validator_AnyGroup(cred, t, bl) ==
    IF ~VerifyWithKey(cred, JwtKey) THEN Unauthorized("Invalid JWT")
    ELSE IF cred[1].exp < t THEN Unauthorized("Expired JWT")
    ELSE IF DefaultHash(cred) \in bl THEN Unauthorized("JWT was logged out")
    ELSE IF cred[1].groups # {} THEN Ok
    ELSE Unauthorized("JWT error: User is not in group lldap_admin")

\* token_validator on bearer credentials cred at time t with registry bl.
token_validator(cred, t, bl) ==
    IF ~VerifyWithKey(cred, JwtKey) THEN Unauthorized("Invalid JWT")
    ELSE IF cred[1].exp < t THEN Unauthorized("Expired JWT")
    ELSE IF DefaultHash(cred) \in bl THEN Unauthorized("JWT was logged out")
    ELSE IF "lldap_admin" \in cred[1].groups THEN Ok
    ELSE Unauthorized("JWT error: User is not in group lldap_admin")

\* HeaderValue::from_str(&format!("Bearer {}", value)): {} on an error.
Bearer(value) == [scheme |-> "Bearer", token |-> value]
HeaderValue_from_str(value) ==
    IF \E i \in 1..Len(value) : value[i] = Ctl THEN {} ELSE {Bearer(value)}

\* CookieToHeaderTranslator that passes a request on when the header value
\* cannot be built.
CookieToHeaderTranslator_PassThrough(cookie, authorization) ==
    IF cookie = {} THEN [inner |-> TRUE, authorization |-> authorization]
    ELSE LET v == CHOOSE c \in cookie : TRUE
         IN  IF HeaderValue_from_str(v) # {}
             THEN [inner |-> TRUE, authorization |-> HeaderValue_from_str(v)]
             ELSE [inner |-> TRUE, authorization |-> authorization]

\* CookieToHeaderTranslator::call on a request with the token cookie `cookie`
\* ({} when absent) and the Authorization header `authorization` ({} when
\* absent): the response of the translator itself, or the Authorization
\* header of the request it passes to the inner service.
CookieToHeaderTranslator(cookie, authorization) ==
    IF cookie = {} THEN [inner |-> TRUE, authorization |-> authorization]
    ELSE LET v == CHOOSE c \in cookie : TRUE
         IN  IF HeaderValue_from_str(v) # {}
             THEN [inner |-> TRUE, authorization |-> HeaderValue_from_str(v)]
             ELSE [inner |-> FALSE, resp |-> BadRequest("Invalid token cookie")]

\* The inner service on a route behind HttpAuthentication::bearer: the bearer
\* extractor, then token_validator, then the route handler.
ProtectedRoute(authorization, t, bl) ==
    IF authorization = {} THEN Unauthorized("")
    ELSE token_validator((CHOOSE h \in authorization : TRUE).token, t, bl)

\* str::split_once("+"): the text before and after the first '+'.
PlusAt(s) == {i \in 1..Len(s) : s[i] = "+"}
FirstPlus(s) == CHOOSE i \in PlusAt(s) : \A j \in PlusAt(s) : i <= j
\* str::rsplit_once("+"): the text before and after the last '+'.
rsplit_once(s) ==
    LET last == CHOOSE i \in PlusAt(s) : \A j \in PlusAt(s) : i >= j
    IN  IF PlusAt(s) = {} THEN <<>>
        ELSE <<SubSeq(s, 1, last - 1), SubSeq(s, last + 1, Len(s))>>
split_once(s) ==
    IF PlusAt(s) = {} THEN <<>>
    ELSE <<SubSeq(s, 1, FirstPlus(s) - 1), SubSeq(s, FirstPlus(s) + 1, Len(s))>>

\* get_refresh_token_from_cookie that takes a value without '+' as a token of
\* the user with the empty name.
get_refresh_token_from_cookie_Lenient(cookie) ==
    IF cookie = {} THEN [ok |-> FALSE, err |-> Unauthorized("Missing refresh token")]
    ELSE LET v == CHOOSE c \in cookie : TRUE
         IN  IF split_once(v) = <<>>
             THEN [ok |-> TRUE, hash |-> DefaultHash(v), user |-> <<>>]
             ELSE [ok |-> TRUE, hash |-> DefaultHash(split_once(v)[1]),
                   user |-> split_once(v)[2]]

\* get_refresh_token_from_cookie that hands on the token part as it is.
get_refresh_token_from_cookie_Raw(cookie) ==
    IF cookie = {} THEN [ok |-> FALSE, err |-> Unauthorized("Missing refresh token")]
    ELSE LET v == CHOOSE c \in cookie : TRUE
         IN  IF split_once(v) = <<>>
             THEN [ok |-> FALSE, err |-> Unauthorized("Invalid refresh token")]
             ELSE [ok |-> TRUE, hash |-> split_once(v)[1],
                   user |-> split_once(v)[2]]

\* A request's refresh_token cookie: {} when absent, else {value}.
\* get_refresh_token_from_cookie gives Ok((hash, user)) or Err(response).
get_refresh_token_from_cookie(cookie) ==
    IF cookie = {} THEN [ok |-> FALSE, err |-> Unauthorized("Missing refresh token")]
    ELSE LET v == CHOOSE c \in cookie : TRUE
         IN  IF split_once(v) = <<>>
             THEN [ok |-> FALSE, err |-> Unauthorized("Invalid refresh token")]
             ELSE [ok |-> TRUE, hash |-> DefaultHash(split_once(v)[1]),
                   user |-> split_once(v)[2]]

\* The value post_authorize gives the refresh_token cookie.
refresh_cookie_value(refresh_token, name) == refresh_token \o <<"+">> \o name

\* error_to_http_response for the two kinds of DomainError the handlers see.
AuthenticationError(msg) == [kind |-> "auth", msg |-> msg]
DatabaseError == [kind |-> "db", msg |-> "backend failure"]
error_to_http_response(e) ==
    IF e.kind = "auth" THEN Unauthorized(e.msg)
    ELSE [status |-> 500, body |-> e.msg]

\* ------------------------------------------------------- backend contract
bind(name, password) == name \in Users /\ Password[name] = password
get_user_groups(user) == IF user \in Users THEN memberships[user] ELSE {}
check_token(hash, user) ==
    \E r \in refresh_tokens : r.hash = hash /\ r.user = user /\ r.exp >= now
\* The store holds a refresh token with this hash.
Stored(hash) == \E r \in refresh_tokens : r.hash = hash
delete_refresh_token(hash) == {r \in refresh_tokens : r.hash # hash}
\* The answers blacklist_jwts(user) can give: hashes of access tokens of user.
blacklist_jwts(user) ==
    SUBSET {DefaultHash(JwtStr(m.jwt)) : m \in {n \in minted : n.user = user}}

\* ------------------------------------------------------- domain::sql_tables
\* A table of the database: {} while it does not exist, else {its rows}.
NoTable == {}
TableOf(rows) == {rows}
RowsOf(table) == CHOOSE rows \in table : TRUE
\* The rows the clients of the database insert.
UserIds == {"bob", "alice"}
GroupIds == {1, 2}
\* PoolOptions::new().connect("sqlite::memory:"): an empty database.
MemoryPool ==
    [Users |-> NoTable, Groups |-> NoTable, Memberships |-> NoTable,
     foreign_keys |-> FALSE]

\* CREATE TABLE without IF NOT EXISTS: an error when the table exists.
create_table(db, name) ==
    IF db[name] = NoTable
    THEN [ok |-> TRUE, db |-> [db EXCEPT ![name] = TableOf({})]]
    ELSE [ok |-> FALSE, db |-> db]

\* Table::create().table(name).if_not_exists() executed on db: the table is
\* created empty when it does not exist, and left as it is when it does.
create_table_if_not_exists(db, name) ==
    IF db[name] = NoTable
    THEN [ok |-> TRUE, db |-> [db EXCEPT ![name] = TableOf({})]]
    ELSE [ok |-> TRUE, db |-> db]

\* ------------------------------------------------------------------ tasks
\* A task is a request being served: its input (cookie, name, password,
\* authorization), the values the handler holds (hash, user, groups, batch),
\* the backend calls it has made, and its response.  Of a post_logout the
\* task also keeps what held when the request came in: late, the token had
\* been logged out with 200 before; had, the store held the token's hash;
\* valid, check_token would have accepted the token for the cookie's user.
NoCookies == [token |-> {}, refresh_token |-> {}]
Idle == [kind |-> "idle", pc |-> "idle", cookie |-> {}, name |-> <<>>,
         password |-> <<>>, hash |-> <<>>, user |-> <<>>, groups |-> {},
         batch |-> {}, calls |-> <<>>, resp |-> [status |-> 0, body |-> ""],
         set |-> NoCookies, jwt |-> NoJwt,
         authorization |-> {}, inner |-> FALSE, fwd |-> {}, late |-> FALSE,
         had |-> FALSE, valid |-> FALSE]

Jwts == {m.jwt : m \in minted}
Minted(jwt, user, groups) == [jwt |-> jwt, at |-> now, user |-> user, groups |-> groups]

Call(op, arg) == [op |-> op, arg |-> arg]

\* The task ends with response r, cookies c and, on success, the token jwt.
Finish(task, r, c, jwt) ==
    [task EXCEPT !.pc = "done", !.resp = r, !.set = c, !.jwt = jwt]

\* The cookie carries a refresh token that a logout has already been answered
\* 200 for.
LoggedOut(cookie) ==
    \E c \in cookie : split_once(c) # <<>> /\ split_once(c)[1] \in logged_out

\* The refresh_token cookies a client can send: none, a value without '+', a
\* guessed token, or a token the backend has handed out under any user name.
RefreshCookies ==
    {{}, {<<"x", "a">>}, {Garbage \o <<"+", "a">>}}
    \cup {{raw \o <<"+">> \o u} : raw \in issued_raw, u \in Users}

TypeOK ==
    /\ now \in 0..MaxTime
    /\ memberships \in [Users -> SUBSET Groups]
    /\ jwt_blacklist \subseteq {DefaultHash(JwtStr(t)) : t \in Jwts}
    /\ Cardinality(minted) <= MaxJwts
    /\ issued_raw \subseteq RawTokens

Init ==
    /\ now = 0
    /\ memberships \in {[u \in Users |-> IF u = <<"a">> THEN {"lldap_admin"} ELSE {"staff"}]}
    /\ refresh_tokens = {}
    /\ issued_raw = {}
    /\ jwt_blacklist = {}
    /\ minted = {}
    /\ logged_out = {}
    /\ tasks = [w \in Workers |-> Idle]
    /\ pool = MemoryPool
    /\ setup = [pc |-> "idle", result |-> "", runs |-> 0]

\* ------------------------------------------------------------- environment
Tick ==
    /\ now < MaxTime
    /\ now' = now + 1
    /\ UNCHANGED <<dbvars, memberships, refresh_tokens, issued_raw, jwt_blacklist, minted, logged_out, tasks>>

\* An administrator adds user u to the administrative group or removes u
\* from it.
ChangeMembership(u) ==
    /\ u = <<"a">>
    /\ memberships' = [memberships EXCEPT ![u] =
                          IF "lldap_admin" \in @ THEN @ \ {"lldap_admin"}
                          ELSE @ \cup {"lldap_admin"}]
    /\ UNCHANGED <<dbvars, now, refresh_tokens, issued_raw, jwt_blacklist, minted, logged_out, tasks>>

\* ---------------------------------------------------------- post_authorize
AuthorizeStart(w, name, password) ==
    /\ tasks[w].pc = "idle"
    /\ tasks' = [tasks EXCEPT ![w] = [Idle EXCEPT !.kind = "authorize", !.pc = "bind",
                                        !.name = name, !.password = password]]
    /\ UNCHANGED <<dbvars, now, memberships, refresh_tokens, issued_raw, jwt_blacklist, minted, logged_out>>

\* AuthorizeBind that goes on to get_user_groups whatever bind answers.
AuthorizeBind_Unchecked(w) ==
    LET t == tasks[w]
        c == Append(t.calls, Call("bind", t.name))
    IN  /\ t.kind = "authorize" /\ t.pc = "bind"
        /\ tasks' = [tasks EXCEPT ![w] = [t EXCEPT !.pc = "groups", !.calls = c]]
        /\ UNCHANGED <<dbvars, now, memberships, refresh_tokens, issued_raw, jwt_blacklist, minted, logged_out>>

\* bind(req) answers.
AuthorizeBind(w) ==
    LET t == tasks[w]
        c == Append(t.calls, Call("bind", t.name))
    IN  /\ t.kind = "authorize" /\ t.pc = "bind"
        /\ \/ /\ bind(t.name, t.password)
              /\ tasks' = [tasks EXCEPT ![w] = [t EXCEPT !.pc = "groups", !.calls = c]]
           \/ /\ ~bind(t.name, t.password)
              /\ tasks' = [tasks EXCEPT ![w] =
                    Finish([t EXCEPT !.calls = c],
                           error_to_http_response(AuthenticationError("Invalid credentials")),
                           NoCookies, NoJwt)]
           \/ tasks' = [tasks EXCEPT ![w] =
                    Finish([t EXCEPT !.calls = c],
                           error_to_http_response(DatabaseError), NoCookies, NoJwt)]
        /\ UNCHANGED <<dbvars, now, memberships, refresh_tokens, issued_raw, jwt_blacklist, minted, logged_out>>

\* get_user_groups(request.name) answers.
AuthorizeGroups(w) ==
    LET t == tasks[w]
        c == Append(t.calls, Call("get_user_groups", t.name))
    IN  /\ t.kind = "authorize" /\ t.pc = "groups"
        /\ \/ tasks' = [tasks EXCEPT ![w] =
                    [t EXCEPT !.pc = "create", !.calls = c,
                              !.groups = get_user_groups(t.name)]]
           \/ tasks' = [tasks EXCEPT ![w] =
                    Finish([t EXCEPT !.calls = c],
                           error_to_http_response(DatabaseError), NoCookies, NoJwt)]
        /\ UNCHANGED <<dbvars, now, memberships, refresh_tokens, issued_raw, jwt_blacklist, minted, logged_out>>

\* create_refresh_token(&request.name) answers; on success the access token is
\* minted and both cookies are set.
AuthorizeCreate(w) ==
    LET t == tasks[w]
        c == Append(t.calls, Call("create_refresh_token", t.name))
    IN  /\ t.kind = "authorize" /\ t.pc = "create"
        /\ \/ \E raw \in {RawStream[i] : i \in {Cardinality(issued_raw) + 1}
                                                \cap 1..Len(RawStream)} :
                LET jwt == create_jwt(JwtKey, t.name, t.groups, now, now)
                    m == Minted(jwt, t.name, t.groups)
                IN  /\ Cardinality(minted \cup {m}) <= MaxJwts
                    /\ refresh_tokens' = refresh_tokens \cup
                           {[hash |-> DefaultHash(raw), user |-> t.name,
                             exp |-> now + RefreshAge]}
                    /\ issued_raw' = issued_raw \cup {raw}
                    /\ minted' = minted \cup {m}
                    /\ tasks' = [tasks EXCEPT ![w] =
                          Finish([t EXCEPT !.calls = c], Ok,
                                 [token |-> {[value |-> JwtStr(jwt), max_age |-> Day]},
                                  refresh_token |-> {[value |-> refresh_cookie_value(raw, t.name),
                                                      max_age |-> RefreshAge]}],
                                 {jwt})]
           \/ /\ tasks' = [tasks EXCEPT ![w] =
                    Finish([t EXCEPT !.calls = c],
                           error_to_http_response(DatabaseError), NoCookies, NoJwt)]
              /\ UNCHANGED <<refresh_tokens, issued_raw, minted>>
        /\ UNCHANGED <<dbvars, now, memberships, jwt_blacklist, logged_out>>

\* ------------------------------------------------------------- get_refresh
RefreshStart(w, cookie) ==
    LET p == get_refresh_token_from_cookie(cookie)
        t == [Idle EXCEPT !.kind = "refresh", !.cookie = cookie,
                          !.late = LoggedOut(cookie)]
    IN  /\ tasks[w].pc = "idle"
        /\ tasks' = [tasks EXCEPT ![w] =
              IF p.ok THEN [t EXCEPT !.pc = "check", !.hash = p.hash, !.user = p.user]
              ELSE Finish(t, p.err, NoCookies, NoJwt)]
        /\ UNCHANGED <<dbvars, now, memberships, refresh_tokens, issued_raw, jwt_blacklist, minted, logged_out>>

\* RefreshCheck that goes on to get_user_groups whatever check_token answers.
RefreshCheck_Unchecked(w) ==
    LET t == tasks[w]
        c == Append(t.calls, Call("check_token", t.hash))
    IN  /\ t.kind = "refresh" /\ t.pc = "check"
        /\ tasks' = [tasks EXCEPT ![w] = [t EXCEPT !.pc = "groups", !.calls = c]]
        /\ UNCHANGED <<dbvars, now, memberships, refresh_tokens, issued_raw, jwt_blacklist, minted, logged_out>>

\* check_token(refresh_token_hash, &user) answers.
RefreshCheck(w) ==
    LET t == tasks[w]
        c == Append(t.calls, Call("check_token", t.hash))
    IN  /\ t.kind = "refresh" /\ t.pc = "check"
        /\ \/ /\ check_token(t.hash, t.user)
              /\ tasks' = [tasks EXCEPT ![w] = [t EXCEPT !.pc = "groups", !.calls = c]]
           \/ /\ ~check_token(t.hash, t.user)
              /\ tasks' = [tasks EXCEPT ![w] =
                    Finish([t EXCEPT !.calls = c],
                           error_to_http_response(AuthenticationError("Invalid refresh token")),
                           NoCookies, NoJwt)]
           \/ tasks' = [tasks EXCEPT ![w] =
                    Finish([t EXCEPT !.calls = c],
                           error_to_http_response(DatabaseError), NoCookies, NoJwt)]
        /\ UNCHANGED <<dbvars, now, memberships, refresh_tokens, issued_raw, jwt_blacklist, minted, logged_out>>

\* RefreshGroups that mints with the groups of a token the user already has.
RefreshGroups_Stale(w) ==
    LET t == tasks[w]
        c == Append(t.calls, Call("get_user_groups", t.user))
        g == IF \E m \in minted : m.user = t.user
             THEN (CHOOSE m \in minted : m.user = t.user).groups
             ELSE get_user_groups(t.user)
        jwt == create_jwt(JwtKey, t.user, g, now, now)
        m == Minted(jwt, t.user, g)
    IN  /\ t.kind = "refresh" /\ t.pc = "groups"
        /\ Cardinality(minted \cup {m}) <= MaxJwts
        /\ minted' = minted \cup {m}
        /\ tasks' = [tasks EXCEPT ![w] =
              Finish([t EXCEPT !.calls = c, !.groups = g], Ok,
                     [token |-> {[value |-> JwtStr(jwt), max_age |-> Day]},
                      refresh_token |-> {}],
                     {jwt})]
        /\ UNCHANGED <<dbvars, now, memberships, refresh_tokens, issued_raw, jwt_blacklist, logged_out>>

\* RefreshGroups that also revokes the refresh token it was called with.
RefreshGroups_Rotate(w) ==
    LET t == tasks[w]
        c == Append(t.calls, Call("get_user_groups", t.user))
        g == get_user_groups(t.user)
        jwt == create_jwt(JwtKey, t.user, g, now, now)
        m == Minted(jwt, t.user, g)
    IN  /\ t.kind = "refresh" /\ t.pc = "groups"
        /\ Cardinality(minted \cup {m}) <= MaxJwts
        /\ minted' = minted \cup {m}
        /\ refresh_tokens' = delete_refresh_token(t.hash)
        /\ tasks' = [tasks EXCEPT ![w] =
              Finish([t EXCEPT !.calls = c, !.groups = g], Ok,
                     [token |-> {[value |-> JwtStr(jwt), max_age |-> Day]},
                      refresh_token |-> {}],
                     {jwt})]
        /\ UNCHANGED <<dbvars, now, memberships, issued_raw, jwt_blacklist, logged_out>>

\* get_user_groups(user) answers; on success the access token is minted.
RefreshGroups(w) ==
    LET t == tasks[w]
        c == Append(t.calls, Call("get_user_groups", t.user))
    IN  /\ t.kind = "refresh" /\ t.pc = "groups"
        /\ \/   LET g == get_user_groups(t.user)
                    jwt == create_jwt(JwtKey, t.user, g, now, now)
                    m == Minted(jwt, t.user, g)
                IN  /\ Cardinality(minted \cup {m}) <= MaxJwts
                    /\ minted' = minted \cup {m}
                    /\ tasks' = [tasks EXCEPT ![w] =
                          Finish([t EXCEPT !.calls = c, !.groups = g], Ok,
                                 [token |-> {[value |-> JwtStr(jwt), max_age |-> Day]},
                                  refresh_token |-> {}],
                                 {jwt})]
           \/ /\ tasks' = [tasks EXCEPT ![w] =
                    Finish([t EXCEPT !.calls = c],
                           error_to_http_response(DatabaseError), NoCookies, NoJwt)]
              /\ UNCHANGED minted
        /\ UNCHANGED <<dbvars, now, memberships, refresh_tokens, issued_raw, jwt_blacklist, logged_out>>

\* ------------------------------------------------------------- post_logout
LogoutStart(w, cookie) ==
    LET p == get_refresh_token_from_cookie(cookie)
        t == [Idle EXCEPT !.kind = "logout", !.cookie = cookie,
                          !.late = LoggedOut(cookie)]
    IN  /\ tasks[w].pc = "idle"
        /\ tasks' = [tasks EXCEPT ![w] =
              IF p.ok THEN [t EXCEPT !.pc = "delete", !.hash = p.hash, !.user = p.user,
                                     !.had = Stored(p.hash),
                                     !.valid = check_token(p.hash, p.user)]
              ELSE Finish(t, p.err, NoCookies, NoJwt)]
        /\ UNCHANGED <<dbvars, now, memberships, refresh_tokens, issued_raw, jwt_blacklist, minted, logged_out>>

\* LogoutDelete that goes on without calling delete_refresh_token.
LogoutDelete_Skip(w) ==
    LET t == tasks[w]
    IN  /\ t.kind = "logout" /\ t.pc = "delete"
        /\ tasks' = [tasks EXCEPT ![w] = [t EXCEPT !.pc = "blacklist"]]
        /\ UNCHANGED <<dbvars, now, memberships, refresh_tokens, issued_raw, jwt_blacklist, minted, logged_out>>

\* delete_refresh_token(refresh_token_hash) answers.
LogoutDelete(w) ==
    LET t == tasks[w]
        c == Append(t.calls, Call("delete_refresh_token", t.hash))
    IN  /\ t.kind = "logout" /\ t.pc = "delete"
        /\ \/ /\ refresh_tokens' = delete_refresh_token(t.hash)
              /\ tasks' = [tasks EXCEPT ![w] = [t EXCEPT !.pc = "blacklist", !.calls = c]]
           \/ /\ tasks' = [tasks EXCEPT ![w] =
                    Finish([t EXCEPT !.calls = c],
                           error_to_http_response(DatabaseError), NoCookies, NoJwt)]
              /\ UNCHANGED refresh_tokens
        /\ UNCHANGED <<dbvars, now, memberships, issued_raw, jwt_blacklist, minted, logged_out>>

\* LogoutBlacklist that clears both cookies also when blacklist_jwts fails.
LogoutBlacklist_ClearOnError(w) ==
    LET t == tasks[w]
        c == Append(t.calls, Call("blacklist_jwts", t.user))
    IN  /\ t.kind = "logout" /\ t.pc = "blacklist"
        /\ \/ \E new_blacklisted_jwts \in blacklist_jwts(t.user) :
                tasks' = [tasks EXCEPT ![w] =
                    [t EXCEPT !.pc = "insert", !.calls = c, !.batch = new_blacklisted_jwts]]
           \/ tasks' = [tasks EXCEPT ![w] =
                    Finish([t EXCEPT !.calls = c],
                           error_to_http_response(DatabaseError),
                           [token |-> {[value |-> <<>>, max_age |-> 0]},
                            refresh_token |-> {[value |-> <<>>, max_age |-> 0]}],
                           NoJwt)]
        /\ UNCHANGED <<dbvars, now, memberships, refresh_tokens, issued_raw, jwt_blacklist, minted, logged_out>>

\* blacklist_jwts(&user) answers.
LogoutBlacklist(w) ==
    LET t == tasks[w]
        c == Append(t.calls, Call("blacklist_jwts", t.user))
    IN  /\ t.kind = "logout" /\ t.pc = "blacklist"
        /\ \/ \E new_blacklisted_jwts \in blacklist_jwts(t.user) :
                tasks' = [tasks EXCEPT ![w] =
                    [t EXCEPT !.pc = "insert", !.calls = c, !.batch = new_blacklisted_jwts]]
           \/ tasks' = [tasks EXCEPT ![w] =
                    Finish([t EXCEPT !.calls = c],
                           error_to_http_response(DatabaseError), NoCookies, NoJwt)]
        /\ UNCHANGED <<dbvars, now, memberships, refresh_tokens, issued_raw, jwt_blacklist, minted, logged_out>>

\* LogoutInsert that overwrites the registry with the batch.
LogoutInsert_Replace(w) ==
    LET t == tasks[w]
    IN  /\ t.kind = "logout" /\ t.pc = "insert"
        /\ jwt_blacklist' = t.batch
        /\ logged_out' = logged_out \cup
               ({split_once(c)[1] : c \in t.cookie} \cap issued_raw)
        /\ tasks' = [tasks EXCEPT ![w] =
              Finish(t, Ok,
                     [token |-> {[value |-> <<>>, max_age |-> 0]},
                      refresh_token |-> {[value |-> <<>>, max_age |-> 0]}],
                     NoJwt)]
        /\ UNCHANGED <<dbvars, now, memberships, refresh_tokens, issued_raw, minted>>

\* The batch is inserted under the write lock and both cookies are cleared.
LogoutInsert(w) ==
    LET t == tasks[w]
    IN  /\ t.kind = "logout" /\ t.pc = "insert"
        /\ jwt_blacklist' = jwt_blacklist \cup t.batch
        /\ logged_out' = logged_out \cup
               ({split_once(c)[1] : c \in t.cookie} \cap issued_raw)
        /\ tasks' = [tasks EXCEPT ![w] =
              Finish(t, Ok,
                     [token |-> {[value |-> <<>>, max_age |-> 0]},
                      refresh_token |-> {[value |-> <<>>, max_age |-> 0]}],
                     NoJwt)]
        /\ UNCHANGED <<dbvars, now, memberships, refresh_tokens, issued_raw, minted>>

\* ------------------------------------------------- requests to the API
\* The token strings a client can present: the minted ones, a minted one with
\* the administrative group written into its claims, and one signed with a
\* key of the client's own.
TokenStrings ==
    {JwtStr(t) : t \in Jwts}
    \cup {JwtStr([t EXCEPT !.groups = @ \cup {"lldap_admin"}]) : t \in Jwts}
    \cup {JwtStr(create_jwt(OtherKey, <<"a">>, {"lldap_admin"}, now, now))}
TokenCookies ==
    {{}} \cup {{s} : s \in TokenStrings} \cup {{JwtStr(t) \o <<Ctl>>} : t \in Jwts}
Authorizations == {{}} \cup {{Bearer(JwtStr(t))} : t \in Jwts}

\* A request to a guarded route goes through the translator and, unless the
\* translator answers it, through the guard to the handler.
ApiRequest(w, cookie, authorization) ==
    LET t == [Idle EXCEPT !.kind = "api", !.cookie = cookie,
                          !.authorization = authorization]
        r == CookieToHeaderTranslator(cookie, authorization)
    IN  /\ tasks[w].pc = "idle"
        /\ tasks' = [tasks EXCEPT ![w] =
              IF r.inner
              THEN [Finish(t, ProtectedRoute(r.authorization, now, jwt_blacklist),
                           NoCookies, NoJwt)
                       EXCEPT !.inner = TRUE, !.fwd = r.authorization]
              ELSE Finish(t, r.resp, NoCookies, NoJwt)]
        /\ UNCHANGED <<dbvars, now, memberships, refresh_tokens, issued_raw, jwt_blacklist, minted, logged_out>>

\* The response of a finished task is sent and the worker is free again.
Respond(w) ==
    /\ tasks[w].pc = "done"
    /\ tasks' = [tasks EXCEPT ![w] = Idle]
    /\ UNCHANGED <<dbvars, now, memberships, refresh_tokens, issued_raw, jwt_blacklist, minted, logged_out>>

\* ------------------------------------- the registry's lock, step by step
\* Two workers serve requests at the same time.  jwt_blacklist is behind a
\* reader/writer lock: post_logout holds the write lock from before its first
\* insert until after its last, and the guard reads under the read lock,
\* which it cannot take while a writer holds the lock.
ConcWorkers == {"w1", "w2"}
WriteLocked == \E w \in DOMAIN tasks : tasks[w].pc = "locked"

\* data.jwt_blacklist.write(): waits while another writer holds the lock.
LogoutLock(w) ==
    LET t == tasks[w]
    IN  /\ t.kind = "logout" /\ t.pc = "insert"
        /\ ~WriteLocked
        /\ tasks' = [tasks EXCEPT ![w] = [t EXCEPT !.pc = "locked"]]
        /\ UNCHANGED <<dbvars, now, memberships, refresh_tokens, issued_raw, jwt_blacklist, minted, logged_out>>

\* One turn of the loop: jwt_blacklist.insert(jwt).
LogoutInsertOne(w) ==
    LET t == tasks[w]
    IN  /\ t.kind = "logout" /\ t.pc = "locked"
        /\ \E jwt \in t.batch \ jwt_blacklist :
              jwt_blacklist' = jwt_blacklist \cup {jwt}
        /\ UNCHANGED <<dbvars, now, memberships, refresh_tokens, issued_raw, minted, logged_out, tasks>>

\* The loop is over, the write lock is dropped and both cookies are cleared.
LogoutUnlock(w) ==
    LET t == tasks[w]
    IN  /\ t.kind = "logout" /\ t.pc = "locked"
        /\ t.batch \subseteq jwt_blacklist
        /\ logged_out' = logged_out \cup
               ({split_once(c)[1] : c \in t.cookie} \cap issued_raw)
        /\ tasks' = [tasks EXCEPT ![w] =
              Finish(t, Ok,
                     [token |-> {[value |-> <<>>, max_age |-> 0]},
                      refresh_token |-> {[value |-> <<>>, max_age |-> 0]}],
                     NoJwt)]
        /\ UNCHANGED <<dbvars, now, memberships, refresh_tokens, issued_raw, jwt_blacklist, minted>>

\* A guarded request whose guard reads the registry without the read lock.
ApiRequestLocked_NoReadLock(w, cookie) ==
    ApiRequest(w, cookie, {})

\* A guarded request: state.jwt_blacklist.read() waits while a writer holds
\* the lock.
ApiRequestLocked(w, cookie) ==
    /\ ~WriteLocked
    /\ ApiRequest(w, cookie, {})

InitConc ==
    /\ now = 0
    /\ memberships \in {[u \in Users |-> IF u = <<"a">> THEN {"lldap_admin"} ELSE {"staff"}]}
    /\ refresh_tokens = {}
    /\ issued_raw = {}
    /\ jwt_blacklist = {}
    /\ minted = {}
    /\ logged_out = {}
    /\ tasks = [w \in ConcWorkers |-> Idle]
    /\ pool = MemoryPool
    /\ setup = [pc |-> "idle", result |-> "", runs |-> 0]

NextConc ==
    \/ Tick
    \/ \E w \in DOMAIN tasks : AuthorizeStart(w, <<"a">>, Password[<<"a">>])
    \/ \E w \in DOMAIN tasks : AuthorizeBind(w)
    \/ \E w \in DOMAIN tasks : AuthorizeGroups(w)
    \/ \E w \in DOMAIN tasks : AuthorizeCreate(w)
    \/ \E w \in DOMAIN tasks, raw \in issued_raw :
          LogoutStart(w, {raw \o <<"+", "a">>})
    \/ \E w \in DOMAIN tasks : LogoutDelete(w)
    \/ \E w \in DOMAIN tasks : LogoutBlacklist(w)
    \/ \E w \in DOMAIN tasks : LogoutLock(w)
    \/ \E w \in DOMAIN tasks : LogoutInsertOne(w)
    \/ \E w \in DOMAIN tasks : LogoutUnlock(w)
    \/ \E w \in DOMAIN tasks, t \in Jwts : ApiRequestLocked(w, {JwtStr(t)})
    \/ \E w \in DOMAIN tasks : Respond(w)

\* Logins, logouts and guarded requests of one user on two workers.
SpecConc == InitConc /\ [][NextConc]_vars

\* ------------------------------------------- refresh cookies of any user
Strings(chars, lo, hi) == UNION {[1..n -> chars] : n \in lo..hi}
\* User names, with and without '+', and raw tokens without '+'.
Names == Strings({"a", "+"}, 0, MaxNameLen)
Raws == Strings({"x", "y"}, 1, MaxRawLen)

NextCookie ==
    \/ \E w \in DOMAIN tasks, raw \in Raws, name \in Names :
          RefreshStart(w, {refresh_cookie_value(raw, name)})
    \/ \E w \in DOMAIN tasks : RefreshCheck(w)
    \/ \E w \in DOMAIN tasks, raw \in Raws, name \in Names :
          LogoutStart(w, {refresh_cookie_value(raw, name)})
    \/ \E w \in DOMAIN tasks : LogoutDelete(w)
    \/ \E w \in DOMAIN tasks : LogoutBlacklist(w)
    \/ \E w \in DOMAIN tasks : LogoutInsert(w)
    \/ \E w \in DOMAIN tasks : Respond(w)

\* get_refresh and post_logout on the cookies post_authorize builds for any
\* user name.
SpecCookie == Init /\ [][NextCookie]_vars

\* ------------------------------------------------------------- init_table
\* init_table(&pool) is called.
InitTableStart ==
    /\ setup.pc = "idle"
    /\ setup.runs < MaxInits
    /\ setup' = [setup EXCEPT !.pc = "pragma", !.result = ""]
    /\ UNCHANGED <<authvars, pool>>

\* PRAGMA foreign_keys = ON; its result is ignored.
InitTablePragma ==
    /\ setup.pc = "pragma"
    /\ pool' = [pool EXCEPT !.foreign_keys = TRUE]
    /\ setup' = [setup EXCEPT !.pc = "Users"]
    /\ UNCHANGED authvars

\* One of the three CREATE TABLE statements is executed; an error ends the
\* call ('?'), and after the last statement the call ends with Ok(()).
InitTableCreate(name, next) ==
    LET r == create_table_if_not_exists(pool, name)
    IN  /\ setup.pc = name
        /\ pool' = r.db
        /\ setup' = IF ~r.ok THEN [setup EXCEPT !.pc = "done", !.result = "Err"]
                     ELSE IF next = "done"
                          THEN [setup EXCEPT !.pc = "done", !.result = "Ok"]
                          ELSE [setup EXCEPT !.pc = next]
        /\ UNCHANGED authvars

\* init_table returns to its caller.
InitTableReturn ==
    /\ setup.pc = "done"
    /\ setup' = [setup EXCEPT !.pc = "idle",
                               !.runs = IF setup.result = "Ok" THEN @ + 1 ELSE @]
    /\ UNCHANGED <<authvars, pool>>

\* INSERT INTO users: the table must exist and the user_id be new.
InsertUser(u) ==
    /\ pool.Users # NoTable
    /\ u \notin RowsOf(pool.Users)
    /\ pool' = [pool EXCEPT !.Users = TableOf(RowsOf(@) \cup {u})]
    /\ UNCHANGED <<authvars, setup>>

\* INSERT INTO groups: the table must exist and the group_id be new.
InsertGroup(g) ==
    /\ pool.Groups # NoTable
    /\ g \notin RowsOf(pool.Groups)
    /\ pool' = [pool EXCEPT !.Groups = TableOf(RowsOf(@) \cup {g})]
    /\ UNCHANGED <<authvars, setup>>

\* INSERT INTO memberships: the table must exist and, with foreign keys on,
\* the user and the group it refers to as well.
InsertMembership(u, g) ==
    /\ pool.Memberships # NoTable
    /\ <<u, g>> \notin RowsOf(pool.Memberships)
    /\ pool.foreign_keys =>
          /\ pool.Users # NoTable /\ u \in RowsOf(pool.Users)
          /\ pool.Groups # NoTable /\ g \in RowsOf(pool.Groups)
    /\ pool' = [pool EXCEPT !.Memberships = TableOf(RowsOf(@) \cup {<<u, g>>})]
    /\ UNCHANGED <<authvars, setup>>

NextDb ==
    \/ InitTableStart
    \/ InitTablePragma
    \/ InitTableCreate("Users", "Groups")
    \/ InitTableCreate("Groups", "Memberships")
    \/ InitTableCreate("Memberships", "done")
    \/ InitTableReturn
    \/ \E u \in UserIds : InsertUser(u)
    \/ \E g \in GroupIds : InsertGroup(g)
    \/ \E u \in UserIds, g \in GroupIds : InsertMembership(u, g)

\* The database while the schema is initialised and rows are inserted.
SpecDb == Init /\ [][NextDb]_vars

Next ==
    \/ Tick
    \/ \E u \in Users : ChangeMembership(u)
    \/ \E w \in DOMAIN tasks, name \in Users, password \in {Password[u] : u \in Users} :
          AuthorizeStart(w, name, password)
    \/ \E w \in DOMAIN tasks : AuthorizeBind(w)
    \/ \E w \in DOMAIN tasks : AuthorizeGroups(w)
    \/ \E w \in DOMAIN tasks : AuthorizeCreate(w)
    \/ \E w \in DOMAIN tasks, cookie \in RefreshCookies : RefreshStart(w, cookie)
    \/ \E w \in DOMAIN tasks : RefreshCheck(w)
    \/ \E w \in DOMAIN tasks : RefreshGroups(w)
    \/ \E w \in DOMAIN tasks, cookie \in RefreshCookies : LogoutStart(w, cookie)
    \/ \E w \in DOMAIN tasks : LogoutDelete(w)
    \/ \E w \in DOMAIN tasks : LogoutBlacklist(w)
    \/ \E w \in DOMAIN tasks : LogoutInsert(w)
    \/ \E w \in DOMAIN tasks, cookie \in TokenCookies, authorization \in Authorizations :
          /\ authorization # {} => \A c \in cookie : c \in {JwtStr(t) : t \in Jwts}
          /\ ApiRequest(w, cookie, authorization)
    \/ \E w \in DOMAIN tasks : Respond(w)

Spec == Init /\ [][Next]_vars

\* ========================================================== properties
NoPlus(cookie) == \A c \in cookie : \A i \in 1..Len(c) : c[i] # "+"
Step(w) == tasks'[w] # tasks[w]
Finishes(w, kind) == Step(w) /\ tasks'[w].kind = kind /\ tasks'[w].pc = "done"
Valid(t) == t \in Jwts /\ t.exp >= now
Revoked(t) == DefaultHash(JwtStr(t)) \in jwt_blacklist

\* C1 (revocation).  Once post_logout has answered 200, every unexpired access
\* token whose hash was in the answer of blacklist_jwts is rejected by the
\* guard with 401 "JWT was logged out"; and no step of a logout changes what
\* the guard answers for a token of another user whose hash is not in that
\* answer.
C1_BatchRejected ==
    \A w \in DOMAIN tasks :
        (tasks[w].kind = "logout" /\ tasks[w].pc = "done" /\ tasks[w].resp.status = 200)
        => \A t \in Jwts :
              (DefaultHash(JwtStr(t)) \in tasks[w].batch /\ t.exp >= now)
              => token_validator(JwtStr(t), now, jwt_blacklist)
                    = Unauthorized("JWT was logged out")
C1_OthersUntouched ==
    \A w \in DOMAIN tasks :
        (Step(w) /\ tasks'[w].kind = "logout")
        => \A t \in Jwts :
              (t.user # tasks'[w].user /\ DefaultHash(JwtStr(t)) \notin tasks'[w].batch)
              => token_validator(JwtStr(t), now', jwt_blacklist')
                    = token_validator(JwtStr(t), now, jwt_blacklist)
C1_Revocation == []C1_BatchRejected /\ [][C1_OthersUntouched]_vars

\* A logout of one user has revoked an unexpired token while the token of the
\* other user is still accepted.
C1_Witness ==
    \E w \in DOMAIN tasks :
        /\ tasks[w].kind = "logout" /\ tasks[w].pc = "done" /\ tasks[w].resp.status = 200
        /\ \E t \in Jwts : DefaultHash(JwtStr(t)) \in tasks[w].batch /\ t.exp >= now
        /\ \E t \in Jwts : /\ t.user # tasks[w].user
                           /\ token_validator(JwtStr(t), now, jwt_blacklist) = Ok

\* C2 (admin gating).  A request reaches the handler of a guarded route only
\* with a bearer token that this service minted, that is unexpired, whose hash
\* is not in the registry and whose groups hold "lldap_admin"; a minted,
\* unexpired, unrevoked token without that group is answered 401 with the
\* reason "User is not in group lldap_admin".
C2_Step ==
    \A w \in DOMAIN tasks :
        Finishes(w, "api") =>
            LET r == tasks'[w]
                creds == {h.token : h \in r.fwd}
            IN  /\ r.resp.status = 200 =>
                    /\ r.inner
                    /\ \E c \in creds : /\ Len(c) = 1
                                        /\ Valid(c[1])
                                        /\ ~Revoked(c[1])
                                        /\ "lldap_admin" \in c[1].groups
                /\ \A c \in creds :
                    (/\ r.inner /\ Len(c) = 1 /\ Valid(c[1]) /\ ~Revoked(c[1])
                     /\ "lldap_admin" \notin c[1].groups)
                    => r.resp = Unauthorized("JWT error: User is not in group lldap_admin")
C2_AdminGating == [][C2_Step]_vars

\* The guard has turned away a token for the lack of the group.
C2_Witness ==
    \E w \in DOMAIN tasks :
        /\ tasks[w].kind = "api" /\ tasks[w].pc = "done"
        /\ tasks[w].resp = Unauthorized("JWT error: User is not in group lldap_admin")
        /\ \E h \in tasks[w].fwd : h.token[1] \in Jwts

\* C3 (group snapshot and refresh).  The access token minted by a successful
\* get_refresh embeds the membership get_user_groups returns at that time;
\* every minted token keeps the subject and groups it was minted with, and
\* while it is unexpired and unrevoked the guard accepts it exactly when those
\* groups hold "lldap_admin", whatever the user's membership has become.
C3_RefreshEmbedsCurrent ==
    \A w \in DOMAIN tasks :
        (Finishes(w, "refresh") /\ tasks'[w].resp.status = 200)
        => \E j \in tasks'[w].jwt :
              /\ j.user = tasks[w].user
              /\ j.groups = memberships[tasks[w].user]
              /\ tasks'[w].set.token = {[value |-> JwtStr(j), max_age |-> Day]}
              /\ \E m \in minted' : m.jwt = j /\ m.at = now
C3_MintedKeepSnapshot ==
    \A m \in minted :
        /\ m.jwt.user = m.user
        /\ m.jwt.groups = m.groups
        /\ (m.jwt.exp >= now /\ ~Revoked(m.jwt))
           => (token_validator(JwtStr(m.jwt), now, jwt_blacklist) = Ok
               <=> "lldap_admin" \in m.groups)
C3_GroupSnapshot ==
    /\ []C3_MintedKeepSnapshot
    /\ [][C3_RefreshEmbedsCurrent /\ minted \subseteq minted']_vars

\* A refresh has minted a token without the administrative group for a user
\* who has left the group, while the user's login token, minted with the
\* group, is still accepted.
C3_Witness ==
    \E w \in DOMAIN tasks :
        /\ tasks[w].kind = "refresh" /\ tasks[w].pc = "done" /\ tasks[w].resp.status = 200
        /\ \E j \in tasks[w].jwt : "lldap_admin" \notin j.groups
        /\ "lldap_admin" \notin memberships[tasks[w].user]
        /\ \E m \in minted :
              /\ m.user = tasks[w].user
              /\ "lldap_admin" \in m.groups
              /\ token_validator(JwtStr(m.jwt), now, jwt_blacklist) = Ok

\* C4 (logout invalidates the refresh token).  A get_refresh that starts
\* after post_logout has answered 200 for the same refresh token mints no
\* access token and, unless the backend reports a failure, answers 401
\* "Invalid refresh token".
C4_LogoutInvalidatesRefresh ==
    \A w \in DOMAIN tasks :
        (tasks[w].kind = "refresh" /\ tasks[w].late /\ tasks[w].pc = "done")
        => /\ tasks[w].jwt = {}
           /\ tasks[w].set = NoCookies
           /\ tasks[w].resp # error_to_http_response(DatabaseError)
              => tasks[w].resp = Unauthorized("Invalid refresh token")

\* A refresh with a logged-out token that the backend had handed out to the
\* user named in the cookie was answered 401.
C4_Witness ==
    \E w \in DOMAIN tasks :
        /\ tasks[w].kind = "refresh" /\ tasks[w].late /\ tasks[w].pc = "done"
        /\ tasks[w].resp = Unauthorized("Invalid refresh token")
        /\ \E m \in minted : m.user = tasks[w].user

\* C5 (logout twice), as claimed: a post_logout for a refresh token that an
\* earlier post_logout has answered 200 for answers, unless the backend
\* reports a failure, 401 "Invalid refresh token".
C5_SecondLogoutRejected ==
    \A w \in DOMAIN tasks :
        (/\ tasks[w].kind = "logout" /\ tasks[w].late /\ tasks[w].pc = "done"
         /\ tasks[w].resp # error_to_http_response(DatabaseError))
        => tasks[w].resp = Unauthorized("Invalid refresh token")

\* C6 (authorize is gated and ordered).  post_authorize calls bind, then
\* get_user_groups, then create_refresh_token, each only after the one before
\* succeeded; a failing post_authorize sets no cookie, mints no access token
\* and creates no refresh token, and no refresh token is ever created for a
\* request whose bind fails; a successful one sets the token cookie to a
\* token with the bound name and the fetched groups and the refresh_token
\* cookie to raw + "+" + name for the raw token just stored for name.
AuthorizeCalls(name) ==
    <<Call("bind", name), Call("get_user_groups", name),
      Call("create_refresh_token", name)>>
C6_Ordered ==
    \A w \in DOMAIN tasks :
        tasks[w].kind = "authorize" =>
            LET t == tasks[w]
            IN  /\ Len(t.calls) <= 3
                /\ t.calls = SubSeq(AuthorizeCalls(t.name), 1, Len(t.calls))
                /\ Len(t.calls) >= 2 => Password[t.name] = t.password
                /\ (t.pc = "done" /\ t.resp.status # 200)
                   => t.set = NoCookies /\ t.jwt = {}
                /\ (t.pc = "done" /\ t.resp.status = 200) => Len(t.calls) = 3
C6_Step ==
    /\ \A w \in DOMAIN tasks :
          (Finishes(w, "authorize") /\ tasks'[w].resp.status # 200)
          => minted' = minted /\ refresh_tokens' = refresh_tokens
    /\ \A w \in DOMAIN tasks :
          (Finishes(w, "authorize") /\ tasks'[w].resp.status = 200)
          => \E j \in tasks'[w].jwt, raw \in RawTokens :
                /\ j.user = tasks[w].name
                /\ j.groups = tasks[w].groups
                /\ j \in {m.jwt : m \in minted'}
                /\ tasks'[w].set.token = {[value |-> JwtStr(j), max_age |-> Day]}
                /\ {c.value : c \in tasks'[w].set.refresh_token}
                      = {raw \o <<"+">> \o tasks[w].name}
                /\ \E r \in refresh_tokens' \ refresh_tokens :
                      r.hash = DefaultHash(raw) /\ r.user = tasks[w].name
    /\ \A r \in refresh_tokens' \ refresh_tokens :
          \E w \in DOMAIN tasks :
              /\ tasks[w].kind = "authorize"
              /\ tasks[w].name = r.user
              /\ Password[r.user] = tasks[w].password
C6_AuthorizeGated == []C6_Ordered /\ [][C6_Step]_vars

\* A bind with a wrong password was answered 401 after the one call, and (in
\* another request) a login succeeded.
C6_Witness ==
    \E w \in DOMAIN tasks :
        /\ tasks[w].kind = "authorize" /\ tasks[w].pc = "done"
        /\ tasks[w].resp.status = 401
        /\ Password[tasks[w].name] # tasks[w].password
        /\ tasks[w].calls = <<Call("bind", tasks[w].name)>>
        /\ refresh_tokens # {}

\* C7 (missing or malformed refresh cookie).  get_refresh and post_logout
\* answer a request without refresh_token cookie with 401 "Missing refresh
\* token" and one whose cookie holds no '+' with 401 "Invalid refresh token",
\* at once and without any backend call, and leave the refresh-token store
\* and the registry as they are.
Malformed(cookie) == cookie = {} \/ NoPlus(cookie)
C7_Rejected ==
    \A w \in DOMAIN tasks :
        (tasks[w].kind \in {"refresh", "logout"} /\ Malformed(tasks[w].cookie))
        => /\ tasks[w].pc = "done"
           /\ tasks[w].calls = <<>>
           /\ tasks[w].jwt = {} /\ tasks[w].set = NoCookies
           /\ tasks[w].resp = IF tasks[w].cookie = {}
                              THEN Unauthorized("Missing refresh token")
                              ELSE Unauthorized("Invalid refresh token")
C7_Frame ==
    \A w \in DOMAIN tasks :
        (/\ Step(w) /\ tasks'[w].kind \in {"refresh", "logout"}
         /\ Malformed(tasks'[w].cookie))
        => /\ refresh_tokens' = refresh_tokens
           /\ jwt_blacklist' = jwt_blacklist
           /\ minted' = minted
C7_MalformedCookie == []C7_Rejected /\ [][C7_Frame]_vars

\* A logout with a cookie without '+' was turned away while a refresh token
\* is in the store.
C7_Witness ==
    \E w \in DOMAIN tasks :
        /\ tasks[w].kind = "logout" /\ tasks[w].pc = "done"
        /\ tasks[w].cookie # {} /\ NoPlus(tasks[w].cookie)
        /\ tasks[w].resp = Unauthorized("Invalid refresh token")
        /\ refresh_tokens # {}

\* C8 (cookie adapter).  A request whose token cookie cannot be a header
\* value is answered 400 "Invalid token cookie" by the translator and the
\* inner service is not called; a request with any other token cookie reaches
\* the inner service with Authorization "Bearer <cookie value>"; a request
\* without token cookie reaches it with its headers as they were, is never
\* answered 400 and, when it carries no Authorization header either, is
\* answered 401 by the guarded route.
HasCtl(cookie) == \E c \in cookie : \E i \in 1..Len(c) : c[i] = Ctl
C8_CookieAdapter ==
    \A w \in DOMAIN tasks :
        (tasks[w].kind = "api" /\ tasks[w].pc = "done") =>
            LET t == tasks[w]
            IN  /\ HasCtl(t.cookie)
                   => /\ t.resp = BadRequest("Invalid token cookie")
                      /\ ~t.inner /\ t.fwd = {}
                /\ (t.cookie # {} /\ ~HasCtl(t.cookie))
                   => /\ t.inner
                      /\ t.fwd = {[scheme |-> "Bearer", token |-> c] : c \in t.cookie}
                /\ t.cookie = {}
                   => /\ t.inner
                      /\ t.fwd = t.authorization
                      /\ t.resp.status # 400
                      /\ t.authorization = {} => t.resp.status = 401

\* The translator has answered a request whose cookie holds a minted token
\* followed by a byte that no header can hold.
C8_Witness ==
    \E w \in DOMAIN tasks :
        /\ tasks[w].kind = "api" /\ tasks[w].pc = "done"
        /\ HasCtl(tasks[w].cookie)
        /\ \E c \in tasks[w].cookie : c[1] \in Jwts
        /\ tasks[w].resp.status = 400

\* C9 (validity window).  An access token minted at time t for subject s and
\* groups g verifies under the process key and carries s and g; the guard
\* never answers "Invalid JWT" or "Expired JWT" for it at a time up to
\* t + 1 day, and answers 401 "Expired JWT" at every later time.
C9_ValidityWindow ==
    \A m \in minted :
        LET r == token_validator(JwtStr(m.jwt), now, jwt_blacklist)
        IN  /\ VerifyWithKey(JwtStr(m.jwt), JwtKey)
            /\ m.jwt.user = m.user /\ m.jwt.groups = m.groups
            /\ m.at <= now
            /\ now <= m.at + Day => r.body \notin {"Invalid JWT", "Expired JWT"}
            /\ now > m.at + Day => r = Unauthorized("Expired JWT")

\* The guard has answered "Expired JWT" for a minted token, and another
\* minted token is at the last instant of its day and not expired.
C9_Witness ==
    /\ \E w \in DOMAIN tasks :
          /\ tasks[w].kind = "api" /\ tasks[w].pc = "done"
          /\ tasks[w].resp = Unauthorized("Expired JWT")
          /\ \E h \in tasks[w].fwd : h.token[1] \in Jwts
    /\ \E m \in minted :
          /\ now = m.at + Day
          /\ token_validator(JwtStr(m.jwt), now, jwt_blacklist).body # "Expired JWT"

\* C10 (refresh does not rotate or mutate).  No step of a get_refresh creates
\* or deletes a refresh token or changes the registry, and its response never
\* sets the refresh_token cookie; so whatever check_token answers for the
\* cookie before a step of a get_refresh it answers after it.
Usable(store, t, hash, user) ==
    \E r \in store : r.hash = hash /\ r.user = user /\ r.exp >= t
C10_Step ==
    \A w \in DOMAIN tasks :
        (Step(w) /\ tasks'[w].kind = "refresh")
        => /\ refresh_tokens' = refresh_tokens
           /\ issued_raw' = issued_raw
           /\ jwt_blacklist' = jwt_blacklist
           /\ tasks'[w].set.refresh_token = {}
           /\ Usable(refresh_tokens', now', tasks'[w].hash, tasks'[w].user)
                 = Usable(refresh_tokens, now, tasks'[w].hash, tasks'[w].user)
C10_RefreshFrame == [][C10_Step]_vars

\* A refresh has succeeded for a user who holds an earlier token, and the
\* cookie it was made with still passes check_token.
C10_Witness ==
    \E w \in DOMAIN tasks :
        /\ tasks[w].kind = "refresh" /\ tasks[w].pc = "done"
        /\ tasks[w].resp.status = 200
        /\ \E m \in minted : m.jwt \notin tasks[w].jwt /\ m.user = tasks[w].user
        /\ check_token(tasks[w].hash, tasks[w].user)

\* C11 (logout step order and cookie clearing).  post_logout calls
\* delete_refresh_token(hash) and only then blacklist_jwts(user); the step in
\* which either call fails ends the request with the mapped error response
\* and no cookie set, a failing delete is followed by no call of
\* blacklist_jwts, and no step of a failing logout changes the registry; only
\* after both calls succeeded is the answer 200, with the token and the
\* refresh_token cookie set to "" with max-age 0.
LogoutCalls(t) ==
    <<Call("delete_refresh_token", t.hash), Call("blacklist_jwts", t.user)>>
ClearedCookies ==
    [token |-> {[value |-> <<>>, max_age |-> 0]},
     refresh_token |-> {[value |-> <<>>, max_age |-> 0]}]
C11_Ordered ==
    \A w \in DOMAIN tasks :
        (tasks[w].kind = "logout" /\ ~Malformed(tasks[w].cookie)) =>
            LET t == tasks[w]
            IN  /\ Len(t.calls) <= 2
                /\ t.calls = SubSeq(LogoutCalls(t), 1, Len(t.calls))
                /\ t.pc = "delete" <=> Len(t.calls) = 0
                /\ t.pc \in {"blacklist"} => Len(t.calls) = 1
                /\ t.pc = "insert" => Len(t.calls) = 2
                /\ t.pc = "done" =>
                      IF t.resp.status = 200
                      THEN Len(t.calls) = 2 /\ t.set = ClearedCookies
                      ELSE /\ t.set = NoCookies
                           /\ t.resp = error_to_http_response(DatabaseError)
                           /\ Len(t.calls) \in {1, 2}
C11_Step ==
    \A w \in DOMAIN tasks :
        (Step(w) /\ tasks'[w].kind = "logout") =>
            /\ (tasks'[w].pc = "done" /\ tasks'[w].resp.status # 200)
               => /\ jwt_blacklist' = jwt_blacklist
                  /\ tasks[w].pc \in {"idle", "delete", "blacklist"}
                  /\ tasks[w].pc = "delete" => refresh_tokens' = refresh_tokens
            /\ jwt_blacklist' # jwt_blacklist
               => tasks'[w].pc = "done" /\ tasks'[w].resp.status = 200
C11_LogoutOrder == []C11_Ordered /\ [][C11_Step]_vars

\* blacklist_jwts has failed after delete_refresh_token removed the user's
\* refresh token: the answer is the mapped error and no cookie is cleared.
C11_Witness ==
    \E w \in DOMAIN tasks :
        /\ tasks[w].kind = "logout" /\ tasks[w].pc = "done"
        /\ tasks[w].resp = error_to_http_response(DatabaseError)
        /\ tasks[w].calls = LogoutCalls(tasks[w])
        /\ tasks[w].set = NoCookies
        /\ \E m \in minted : m.user = tasks[w].user

\* C12 (refresh-token secrecy).  Every stored refresh token is the hash of a
\* raw token the backend handed out and is never a raw token itself; what a
\* get_refresh or post_logout keeps of the cookie's token part, and what it
\* passes to check_token and delete_refresh_token, is the hash of that part
\* and never the part itself.
TokenPart(cookie) == {split_once(c)[1] : c \in cookie}
C12_Secrecy ==
    /\ \A r \in refresh_tokens :
          /\ r.hash \notin issued_raw
          /\ \E raw \in issued_raw : r.hash = DefaultHash(raw)
    /\ \A w \in DOMAIN tasks :
          (tasks[w].kind \in {"refresh", "logout"} /\ ~Malformed(tasks[w].cookie)) =>
              \A raw \in TokenPart(tasks[w].cookie) :
                  /\ tasks[w].hash = DefaultHash(raw)
                  /\ tasks[w].hash # raw
                  /\ \A i \in 1..Len(tasks[w].calls) :
                        tasks[w].calls[i].op \in {"check_token", "delete_refresh_token"}
                        => /\ tasks[w].calls[i].arg = DefaultHash(raw)
                           /\ tasks[w].calls[i].arg # raw

\* A refresh with a handed-out token has called check_token and succeeded,
\* and a refresh token is in the store.
C12_Witness ==
    \E w \in DOMAIN tasks :
        /\ tasks[w].kind = "refresh" /\ tasks[w].pc = "done"
        /\ tasks[w].resp.status = 200
        /\ TokenPart(tasks[w].cookie) \subseteq issued_raw
        /\ \E i \in 1..Len(tasks[w].calls) : tasks[w].calls[i].op = "check_token"
        /\ refresh_tokens # {}

\* C13 (schema initialisation is idempotent).  Every call of init_table on a
\* database on which a call of init_table has returned Ok returns Ok, and no
\* step of it changes the Users, Groups or Memberships table or their rows.
Tables(db) == <<db.Users, db.Groups, db.Memberships>>
C13_SucceedsAgain ==
    (setup.runs >= 1 /\ setup.pc = "done") => setup.result = "Ok"
C13_Unchanged ==
    (setup.runs >= 1 /\ setup' # setup)
    => /\ Tables(pool') = Tables(pool)
       /\ \A name \in {"Users", "Groups", "Memberships"} : pool[name] # NoTable
C13_InitIdempotent == []C13_SucceedsAgain /\ [][C13_Unchanged]_vars

\* A second call of init_table has returned Ok on a database that holds a
\* user, a group and a membership.
C13_Witness ==
    /\ setup.runs >= 1 /\ setup.pc = "done" /\ setup.result = "Ok"
    /\ RowsOf(pool.Users) # {} /\ RowsOf(pool.Groups) # {}
    /\ RowsOf(pool.Memberships) # {}

\* C14 (guard rejection precedence).  The guard answers a request with the
\* reason of the first failing check in the order signature, expiry,
\* revocation, group: "Invalid JWT" for every token that does not verify
\* under the process key, whatever its claims; "Expired JWT" for every
\* verified expired token, revoked or not, administrator or not; "JWT was
\* logged out" for every verified unexpired revoked token, administrator or
\* not; the missing-group reason only for a verified, unexpired, unrevoked
\* token; and it lets through all others.
BadSignature(c) == ~(Len(c) = 1 /\ IsJwt(c[1]) /\ c[1].sig = Hmac(JwtKey, Claims(c[1])))
Expired(c) == c[1].exp < now
InRegistry(c) == DefaultHash(c) \in jwt_blacklist
NotAdmin(c) == "lldap_admin" \notin c[1].groups
C14_Answer(c, r) ==
    /\ BadSignature(c) => r = Unauthorized("Invalid JWT")
    /\ (~BadSignature(c) /\ Expired(c)) => r = Unauthorized("Expired JWT")
    /\ (~BadSignature(c) /\ ~Expired(c) /\ InRegistry(c))
       => r = Unauthorized("JWT was logged out")
    /\ (~BadSignature(c) /\ ~Expired(c) /\ ~InRegistry(c) /\ NotAdmin(c))
       => r = Unauthorized("JWT error: User is not in group lldap_admin")
    /\ (~BadSignature(c) /\ ~Expired(c) /\ ~InRegistry(c) /\ ~NotAdmin(c))
       => r = Ok
C14_Guard ==
    \A c \in TokenStrings : C14_Answer(c, token_validator(c, now, jwt_blacklist))
C14_Step ==
    \A w \in DOMAIN tasks :
        (Finishes(w, "api") /\ tasks'[w].inner)
        => \A h \in tasks'[w].fwd : C14_Answer(h.token, tasks'[w].resp)
C14_Precedence == []C14_Guard /\ [][C14_Step]_vars

\* The guard has answered "Expired JWT" for a minted token that is revoked
\* and has no administrative group, and "Invalid JWT" is what it answers for
\* a token with a bad signature whose claims are those of an administrator.
C14_Witness ==
    /\ \E w \in DOMAIN tasks :
          /\ tasks[w].kind = "api" /\ tasks[w].pc = "done"
          /\ tasks[w].resp = Unauthorized("Expired JWT")
          /\ \E h \in tasks[w].fwd :
                /\ h.token[1] \in Jwts
                /\ InRegistry(h.token) /\ NotAdmin(h.token)
    /\ \E c \in TokenStrings :
          /\ BadSignature(c) /\ ~NotAdmin(c) /\ ~Expired(c)
          /\ token_validator(c, now, jwt_blacklist) = Unauthorized("Invalid JWT")

\* C15 (the registry is monotonic).  No step removes an entry from
\* jwt_blacklist; the only step that adds entries is the insert of a
\* post_logout, which adds its batch and nothing else, and leaves the set as
\* it is when the batch is already in it; a minted token the guard rejects
\* with "JWT was logged out" is rejected by the guard after every step, and
\* no guarded request made with a token whose hash is in the registry is let
\* through.
C15_Step ==
    /\ jwt_blacklist \subseteq jwt_blacklist'
    /\ jwt_blacklist' # jwt_blacklist
       => \E w \in DOMAIN tasks :
             /\ tasks[w].kind = "logout" /\ tasks[w].pc = "insert"
             /\ tasks'[w].pc = "done"
             /\ jwt_blacklist' = jwt_blacklist \cup tasks[w].batch
    /\ \A w \in DOMAIN tasks :
          (/\ tasks[w].kind = "logout" /\ tasks[w].pc = "insert" /\ Step(w)
           /\ tasks[w].batch \subseteq jwt_blacklist)
          => jwt_blacklist' = jwt_blacklist
    /\ \A t \in Jwts :
          token_validator(JwtStr(t), now, jwt_blacklist) = Unauthorized("JWT was logged out")
          => token_validator(JwtStr(t), now', jwt_blacklist').status = 401
    /\ \A w \in DOMAIN tasks :
          (Finishes(w, "api") /\ tasks'[w].inner)
          => \A h \in tasks'[w].fwd :
                DefaultHash(h.token) \in jwt_blacklist => tasks'[w].resp.status = 401
C15_RegistryMonotonic == [][C15_Step]_vars

\* The registry holds two entries, and a guarded request with a token whose
\* hash is in it, made after the token's day was over, was turned away.
C15_Witness ==
    /\ Cardinality(jwt_blacklist) = 2
    /\ \E w \in DOMAIN tasks :
          /\ tasks[w].kind = "api" /\ tasks[w].pc = "done"
          /\ tasks[w].resp = Unauthorized("Expired JWT")
          /\ \E h \in tasks[w].fwd : DefaultHash(h.token) \in jwt_blacklist

\* C16 (the registry under concurrency).  With logouts and guarded requests
\* interleaved on two workers: entries are added to the registry only by the
\* one logout that holds the write lock; at every guard check, of the batch
\* of every logout that has taken the write lock either none or all is in
\* the registry, and all of it once that logout has dropped the lock; a
\* guard check made after a logout's write turns away every token of its
\* batch; and a request is let through only with a token whose hash is not
\* in the registry when the guard reads it, so a revoked token is accepted
\* only by a check that came before the write.
C16_OneWriter ==
    \A w1, w2 \in DOMAIN tasks :
        (tasks[w1].pc = "locked" /\ tasks[w2].pc = "locked") => w1 = w2
C16_Step ==
    /\ jwt_blacklist' # jwt_blacklist
       => \E w \in DOMAIN tasks :
             /\ tasks[w].kind = "logout" /\ tasks[w].pc = "locked"
             /\ jwt_blacklist' \ jwt_blacklist \subseteq tasks[w].batch
    /\ \A r \in DOMAIN tasks :
          Finishes(r, "api") =>
              /\ \A w \in DOMAIN tasks :
                    (/\ tasks[w].kind = "logout"
                     /\ \/ tasks[w].pc = "locked"
                        \/ tasks[w].pc = "done" /\ tasks[w].resp.status = 200)
                    => /\ \/ tasks[w].batch \cap jwt_blacklist = {}
                          \/ tasks[w].batch \subseteq jwt_blacklist
                       /\ tasks[w].pc = "done" =>
                             /\ tasks[w].batch \subseteq jwt_blacklist
                             /\ \A h \in tasks'[r].fwd :
                                   DefaultHash(h.token) \in tasks[w].batch
                                   => tasks'[r].resp.status = 401
              /\ tasks'[r].resp.status = 200
                 => \A h \in tasks'[r].fwd : DefaultHash(h.token) \notin jwt_blacklist
C16_RegistryLock == []C16_OneWriter /\ [][C16_Step]_vars

\* A request was let through with a token that a logout on the other worker,
\* with a batch of two hashes, has revoked since: both of the batch are in
\* the registry and the token is not expired.
C16_Witness ==
    \E r, w \in DOMAIN tasks :
        /\ tasks[r].kind = "api" /\ tasks[r].pc = "done" /\ tasks[r].resp = Ok
        /\ tasks[w].kind = "logout" /\ tasks[w].pc = "done" /\ tasks[w].resp = Ok
        /\ Cardinality(tasks[w].batch) = 2
        /\ tasks[w].batch \subseteq jwt_blacklist
        /\ \E h \in tasks[r].fwd :
              /\ DefaultHash(h.token) \in tasks[w].batch
              /\ h.token[1].exp >= now

\* C17 (refresh-cookie round trip).  For every raw token without '+' and
\* every user name, with or without '+', get_refresh_token_from_cookie on
\* the cookie value raw + "+" + name that post_authorize builds gives
\* (hash(raw), name): the value is split at its first '+' and all text
\* after it is the user name; this is what get_refresh and post_logout go
\* on with.
C17_RoundTrip ==
    \A w \in DOMAIN tasks :
        tasks[w].kind \in {"refresh", "logout"} =>
            \A raw \in Raws, name \in Names :
                tasks[w].cookie = {refresh_cookie_value(raw, name)}
                => /\ get_refresh_token_from_cookie(tasks[w].cookie)
                         = [ok |-> TRUE, hash |-> DefaultHash(raw), user |-> name]
                   /\ split_once(refresh_cookie_value(raw, name)) = <<raw, name>>
                   /\ tasks[w].hash = DefaultHash(raw)
                   /\ tasks[w].user = name
                   /\ tasks[w].calls # <<>> => tasks[w].calls[1].arg = DefaultHash(raw)

\* get_refresh has called check_token for the cookie of a user whose name
\* holds two '+', with the hash of the two-character token.
C17_Witness ==
    \E w \in DOMAIN tasks :
        /\ tasks[w].kind = "refresh" /\ tasks[w].pc = "done"
        /\ tasks[w].cookie = {<<"x", "y", "+", "+", "a", "+">>}
        /\ tasks[w].user = <<"+", "a", "+">>
        /\ tasks[w].calls = <<Call("check_token", DefaultHash(<<"x", "y">>))>>

\* C18 (logout requires a valid refresh token), as claimed: a post_logout
\* for the user U named in its cookie adds hashes of U's access tokens to the
\* registry only when check_token(hash, U) accepted the cookie's token as the
\* request came in.
C18_Step ==
    \A w \in DOMAIN tasks :
        (Step(w) /\ tasks'[w].kind = "logout" /\ jwt_blacklist' # jwt_blacklist)
        => tasks'[w].valid
C18_LogoutNeedsValidToken == [][C18_Step]_vars

\* C19 (token provenance).  An access token is minted, and one is handed out
\* in a response, only in the last step of a post_authorize that has called
\* bind, get_user_groups and create_refresh_token for the token's subject
\* with the subject's password, or in the last step of a get_refresh that
\* has called check_token and get_user_groups for the token's subject, which
\* it does only after check_token answered true in that request; a request
\* that ends with an error mints and hands out none; every minted token's
\* subject is a user of the backend.
RefreshCallsOf(t) == <<Call("check_token", t.hash), Call("get_user_groups", t.user)>>
C19_Subjects == \A m \in minted : m.user \in Users /\ m.jwt.user = m.user
C19_Step ==
    /\ \A m \in minted' \ minted :
          \E w \in DOMAIN tasks : Step(w) /\ tasks'[w].jwt = {m.jwt}
    /\ \A w \in DOMAIN tasks :
          Step(w) =>
              /\ (tasks'[w].pc = "done" /\ tasks'[w].resp.status # 200)
                 => minted' = minted /\ tasks'[w].jwt = {}
              /\ tasks'[w].pc # "done" => minted' = minted /\ tasks'[w].jwt = {}
              /\ \A j \in tasks'[w].jwt :
                    /\ tasks'[w].resp.status = 200
                    /\ j \in {m.jwt : m \in minted'}
                    /\ \/ /\ tasks[w].kind = "authorize" /\ tasks[w].pc = "create"
                          /\ j.user = tasks[w].name
                          /\ bind(tasks[w].name, tasks[w].password)
                          /\ tasks'[w].calls = AuthorizeCalls(j.user)
                       \/ /\ tasks[w].kind = "refresh" /\ tasks[w].pc = "groups"
                          /\ j.user = tasks[w].user
                          /\ tasks'[w].calls = RefreshCallsOf(tasks[w])
              /\ (tasks'[w].kind = "refresh" /\ tasks'[w].pc = "groups")
                 => /\ tasks[w].kind = "refresh" /\ tasks[w].pc = "check"
                    /\ check_token(tasks[w].hash, tasks[w].user)
C19_Provenance == []C19_Subjects /\ [][C19_Step]_vars

\* A get_refresh has handed out a second token for a user, after check_token
\* and get_user_groups, while the user's refresh token is in the store.
C19_Witness ==
    \E w \in DOMAIN tasks :
        /\ tasks[w].kind = "refresh" /\ tasks[w].pc = "done"
        /\ tasks[w].resp.status = 200
        /\ tasks[w].calls = RefreshCallsOf(tasks[w])
        /\ \E j \in tasks[w].jwt, m \in minted :
              m.jwt # j /\ m.user = j.user /\ j.user = tasks[w].user
        /\ Stored(tasks[w].hash)

\* C20 (logout is all-or-nothing), as claimed: when post_logout answers with
\* an error, the store holds the presented refresh token if it held it as the
\* request came in.
C20_AllOrNothing ==
    \A w \in DOMAIN tasks :
        (/\ tasks[w].kind = "logout" /\ tasks[w].pc = "done"
         /\ tasks[w].resp.status # 200 /\ tasks[w].had)
        => Stored(tasks[w].hash)
====
